---- MODULE Spec2Model ----
(***************************************************************************)
(* A model of the all-gather core of MPICH:                                *)
(*   - the ring schedule built by MPIR_Iallgather_ring_sched and its       *)
(*     execution by a barrier-segmented schedule engine,                   *)
(*   - the algorithm selection of MPIR_Allgather / MPIR_Allgather_intra,   *)
(*   - MPIR_Neighbor_allgather_nb (start, then wait),                      *)
(*   - the global critical section of MPI_Allgather and MPI_Win_complete.  *)
(***************************************************************************)
EXTENDS Integers, Sequences, FiniteSets, TLC

\* ------------------------------------------------------------------ bounds
MaxSize == 3          \* ring: group sizes 1..MaxSize
MaxCommSize == 4      \* selection: group sizes 1..MaxCommSize
MaxCount == 2         \* selection: recvcount in 0..MaxCount, sendcount 0 or MaxCount
MaxTypeSize == 2      \* selection: type_size is 1 or MaxTypeSize
MaxThresh == 8        \* selection: each threshold is MaxThresh \div 2 or MaxThresh
NbCalls == 2          \* neighbor all-gather: concurrent calls
NThreads == 2         \* critical section: threads
MaxSchedSize == 5     \* ring schedule as built: group sizes 1..MaxSchedSize
MaxLog == 2           \* recursive doubling: group sizes 2^0 .. 2^MaxLog
IntBits == 5          \* offsets: the width of int, scaled down from 32
MaxOffSize == 3       \* offsets: group sizes 1..MaxOffSize
MaxExtent == 2        \* offsets: recvtype_extent in 1..MaxExtent
MaxBruckSize == 5     \* Bruck: group sizes 1..MaxBruckSize

VARIABLES
    \* ---- ring schedule and its engine
    comm_size,        \* comm_ptr->local_size (the same on every rank)
    inplace,          \* sendbuf == MPI_IN_PLACE (the same on every rank)
    eager,            \* transport: TRUE a send may complete before it is matched
    contrib,          \* contrib[j]: the contribution rank j supplies
    recvbuf,          \* recvbuf[r][j]: block j of rank r's receive buffer
    built,            \* built[r]: rank r has called MPIR_Iallgather_ring_sched
    sched,            \* sched[r]: the schedule of rank r (a sequence of entries)
    st,               \* st[r][k]: "pending" | "issued" | "done" of entry k
    chan,             \* chan[<<s, d>>]: messages sent by s to d, not yet matched (FIFO)
    written,          \* written[r]: the blocks of recvbuf[r] some step has written
    skipped,          \* the ranks that never make the collective call
    \* ---- process-wide configuration (cvars) and one call of MPIR_Allgather
    cvar_short,       \* MPIR_CVAR_ALLGATHER_SHORT_MSG_SIZE
    cvar_long,        \* MPIR_CVAR_ALLGATHER_LONG_MSG_SIZE
    intra_choice,     \* MPIR_Allgather_alg_intra_choice
    inter_choice,     \* MPIR_Allgather_alg_inter_choice
    a_pc,             \* where the call is
    a_args,           \* the arguments of the call
    a_via,            \* "none" | "direct" | "intra" | "inter": who invoked the algorithm
    a_invoked,        \* the algorithms invoked so far, in order
    a_errno,          \* mpi_errno of the function the call is in
    a_errflag,        \* *errflag
    a_alg,            \* what the algorithm returned and left in *errflag
    a_intra_ret,      \* what MPIR_Allgather_intra returned ("unset" before)
    \* ---- calls of MPIR_Neighbor_allgather_nb
    nb_pc,            \* nb_pc[c]: where call c is
    nb_req,           \* nb_req[c]: the request the start gave call c (0: none)
    nb_res,           \* nb_res[c]: the outcomes of call c's start and wait, and mpi_errno
    nb_events,        \* nb_events[c]: what call c has done, in order
    req_state,        \* req_state[q]: "free" | "active" | "complete"
    \* ---- threads in the public entry points
    t_fn,             \* t_fn[t]: the entry point thread t is in ("none" outside)
    t_pc,             \* t_pc[t]: the label thread t is at
    t_errno,          \* t_errno[t]: mpi_errno of thread t's call
    t_path,           \* t_path[t]: how the call has gone: "ok" or the step that failed
    t_enters,         \* t_enters[t]: critical-section enters of the current call
    t_exits,          \* t_exits[t]: critical-section exits of the current call
    cs_owner,         \* the thread inside the global critical section (0: none)
    \* ---- recursive doubling
    rd_size,          \* the group size, a power of two
    rd_contrib,       \* rd_contrib[j]: the contribution rank j supplies
    rd_buf,           \* rd_buf[r][j]: block j of rank r's receive buffer
    rd_round,         \* rd_round[r]: the rounds rank r has completed
    rd_sent,          \* rd_sent[r]: rank r has sent in its current round
    rd_chan,          \* rd_chan[<<s, d>>]: messages sent by s to d, not yet received
    rd_log,           \* rd_log[r]: the partner of rank r in each completed round
    \* ---- Bruck
    br_size,          \* the group size
    br_contrib,       \* br_contrib[j]: the contribution rank j supplies
    br_tmp,           \* br_tmp[r]: the blocks rank r holds, own block first (rotated)
    br_round,         \* br_round[r]: the rounds rank r has completed
    br_sent,          \* br_sent[r]: rank r has sent in its current round
    br_chan,          \* br_chan[<<s, d>>]: messages sent by s to d, not yet received
    br_log,           \* br_log[r]: destination and source of each completed round
    br_out,           \* br_out[r][j]: block j of rank r's receive buffer
    br_fixed,         \* br_fixed[r]: rank r has done the final permutation
    \* ---- the byte offsets MPIR_Iallgather_ring_sched computes on one rank
    o_args,           \* comm_size, rank, recvcount, recvtype_extent, inplace
    o_pc,             \* where the function is
    o_i,              \* i
    o_j,              \* j
    o_jnext,          \* jnext
    o_last            \* the offset computed last: for what, of which block, its value

ringVars == <<comm_size, inplace, eager, contrib, recvbuf, built, sched, st, chan, written,
              skipped>>

selVars == <<cvar_short, cvar_long, intra_choice, inter_choice, a_pc, a_args, a_via,
             a_invoked, a_errno, a_errflag, a_alg, a_intra_ret>>

nbVars == <<nb_pc, nb_req, nb_res, nb_events, req_state>>

csVars == <<t_fn, t_pc, t_errno, t_path, t_enters, t_exits, cs_owner>>

rdVars == <<rd_size, rd_contrib, rd_buf, rd_round, rd_sent, rd_chan, rd_log>>

brVars == <<br_size, br_contrib, br_tmp, br_round, br_sent, br_chan, br_log, br_out,
            br_fixed>>

offVars == <<o_args, o_pc, o_i, o_j, o_jnext, o_last>>

vars == <<ringVars, selVars, nbVars, csVars, rdVars, brVars, offVars>>

notRing  == <<selVars, nbVars, csVars, rdVars, brVars, offVars>>
notSel   == <<ringVars, nbVars, csVars, rdVars, brVars, offVars>>
notNb    == <<ringVars, selVars, csVars, rdVars, brVars, offVars>>
notCS    == <<ringVars, selVars, nbVars, rdVars, brVars, offVars>>
notRD    == <<ringVars, selVars, nbVars, csVars, brVars, offVars>>
notOff   == <<ringVars, selVars, nbVars, csVars, rdVars, brVars>>
notBruck == <<ringVars, selVars, nbVars, csVars, rdVars, offVars>>

\* ------------------------------------------------------------------ ring
Garbage == 0          \* content of a receive-buffer block nobody has filled

Ranks == 0 .. (comm_size - 1)

\* The entries MPIR_Sched_copy / _send / _recv / MPIR_SCHED_BARRIER append.
CopyEntry(blk)       == [op |-> "copy",    blk |-> blk, peer |-> -1]
SendEntry(blk, dest) == [op |-> "send",    blk |-> blk, peer |-> dest]
RecvEntry(blk, src)  == [op |-> "recv",    blk |-> blk, peer |-> src]
BarrierEntry         == [op |-> "barrier", blk |-> -1,  peer |-> -1]

\* left = (comm_size + rank - 1) % comm_size
Left_Self(rank, size) == rank
Left(rank, size)  == (size + rank - 1) % size
\* right = (rank + 1) % comm_size
Right_NoWrap(rank, size) == rank + 1
Right(rank, size) == (rank + 1) % size

\* if (sendbuf != MPI_IN_PLACE): the local copy is scheduled
NeedsCopy_Always(inpl) == TRUE
NeedsCopy(inpl) == ~inpl

\* jnext = (comm_size + jnext - 1) % comm_size
NextJnext_Up(size, jnext) == (jnext + 1) % size
NextJnext(size, jnext) == (size + jnext - 1) % size

\* (variant: every step sends the block it is receiving into)
RECURSIVE RingLoop_SendAhead(_, _, _, _, _)
RingLoop_SendAhead(i, j, jnext, rank, size) ==
    IF i < size
    THEN <<SendEntry(jnext, Right(rank, size)),
           RecvEntry(jnext, Left(rank, size)),
           BarrierEntry>>
         \o RingLoop_SendAhead(i + 1, jnext, NextJnext(size, jnext), rank, size)
    ELSE <<>>

\* (variant: j is never advanced, every step sends the own block)
RECURSIVE RingLoop_SendOwn(_, _, _, _, _)
RingLoop_SendOwn(i, j, jnext, rank, size) ==
    IF i < size
    THEN <<SendEntry(j, Right(rank, size)),
           RecvEntry(jnext, Left(rank, size)),
           BarrierEntry>>
         \o RingLoop_SendOwn(i + 1, j, NextJnext(size, jnext), rank, size)
    ELSE <<>>

\* (variant: no MPIR_SCHED_BARRIER after a step)
RECURSIVE RingLoop_NoBarrier(_, _, _, _, _)
RingLoop_NoBarrier(i, j, jnext, rank, size) ==
    IF i < size
    THEN <<SendEntry(j, Right(rank, size)),
           RecvEntry(jnext, Left(rank, size))>>
         \o RingLoop_NoBarrier(i + 1, jnext, NextJnext(size, jnext), rank, size)
    ELSE <<>>

\* (variant: the receive of every step left out)
RECURSIVE RingLoop_SendOnly(_, _, _, _, _)
RingLoop_SendOnly(i, j, jnext, rank, size) ==
    IF i < size
    THEN <<SendEntry(j, Right(rank, size)), BarrierEntry>>
         \o RingLoop_SendOnly(i + 1, jnext, NextJnext(size, jnext), rank, size)
    ELSE <<>>

\* (variant: MPIR_SCHED_BARRIER also between the send and the receive)
RECURSIVE RingLoop_BarrierBetween(_, _, _, _, _)
RingLoop_BarrierBetween(i, j, jnext, rank, size) ==
    IF i < size
    THEN <<SendEntry(j, Right(rank, size)),
           BarrierEntry,
           RecvEntry(jnext, Left(rank, size)),
           BarrierEntry>>
         \o RingLoop_BarrierBetween(i + 1, jnext, NextJnext(size, jnext), rank, size)
    ELSE <<>>

\* for (i=1; i<comm_size; i++) { send j -> right; recv jnext <- left; barrier;
\*                               j = jnext; jnext = (comm_size + jnext - 1) % comm_size; }
RECURSIVE RingLoop(_, _, _, _, _)
RingLoop(i, j, jnext, rank, size) ==
    IF i < size
    THEN <<SendEntry(j, Right(rank, size)),
           RecvEntry(jnext, Left(rank, size)),
           BarrierEntry>>
         \o RingLoop(i + 1, jnext, NextJnext(size, jnext), rank, size)
    ELSE <<>>

\* The whole schedule MPIR_Iallgather_ring_sched builds for one rank.
RingSched(rank, size, inpl) ==
    (IF NeedsCopy(inpl) THEN <<CopyEntry(rank), BarrierEntry>> ELSE <<>>)
    \o RingLoop(1, rank, Left(rank, size), rank, size)

\* A barrier entry carries no work: it is "done" from the start.
InitStatus(s) == [k \in 1 .. Len(s) |-> IF s[k].op = "barrier" THEN "done" ELSE "pending"]

\* Entry k of rank r may begin: every entry before every barrier that precedes k
\* has completed.
Ready(r, k) ==
    /\ built[r]
    /\ k \in 1 .. Len(sched[r])
    /\ sched[r][k].op # "barrier"
    /\ st[r][k] = "pending"
    /\ \A m \in 1 .. (k - 1) : st[r][m] # "pending"
    /\ \A b \in 1 .. (k - 1) :
          sched[r][b].op = "barrier" => \A m \in 1 .. b : st[r][m] = "done"

\* Rank r's schedule has drained.
Drained(r) == built[r] /\ \A k \in 1 .. Len(sched[r]) : st[r][k] = "done"

AllDrained == \A r \in Ranks : Drained(r)

Pairs == Ranks \X Ranks

\* The message of send entry k of rank s is still unmatched.
InFlight(s, k) ==
    \E i \in 1 .. Len(chan[<<s, sched[s][k].peer>>]) :
        chan[<<s, sched[s][k].peer>>][i].idx = k

\* The arguments of the call, the same on every rank, and nothing scheduled yet.
RingStart(sizes) ==
    /\ comm_size \in sizes
    /\ inplace \in BOOLEAN
    /\ eager \in BOOLEAN
    /\ contrib = [j \in Ranks |-> j + 1]
    /\ recvbuf = [r \in Ranks |-> [j \in Ranks |->
                     IF inplace /\ j = r THEN contrib[r] ELSE Garbage]]
    /\ built = [r \in Ranks |-> FALSE]
    /\ sched = [r \in Ranks |-> <<>>]
    /\ st = [r \in Ranks |-> <<>>]
    /\ chan = [p \in Pairs |-> <<>>]
    /\ written = [r \in Ranks |-> {}]

\* Every rank of a group of 1..MaxSize makes the call.
RingInit == RingStart(1 .. MaxSize) /\ skipped = {}

\* Every rank of a group of 1..MaxSchedSize makes the call.
SchedInit == RingStart(1 .. MaxSchedSize) /\ skipped = {}

\* One rank of a group of 2..MaxSize never makes the call.
SkipInit == RingStart(2 .. MaxSize) /\ \E s \in Ranks : skipped = {s}

\* Rank r calls MPIR_Iallgather_ring_sched: the schedule is recorded, nothing runs.
Sched_build(r) ==
    /\ ~built[r]
    /\ r \notin skipped
    /\ built' = [built EXCEPT ![r] = TRUE]
    /\ sched' = [sched EXCEPT ![r] = RingSched(r, comm_size, inplace)]
    /\ st' = [st EXCEPT ![r] = InitStatus(RingSched(r, comm_size, inplace))]
    /\ UNCHANGED <<skipped, comm_size, inplace, eager, contrib, recvbuf, chan, written>>
    /\ UNCHANGED notRing

\* A copy entry: sendbuf is copied into block blk; done at once.
Start_copy(r, k) ==
    /\ Ready(r, k)
    /\ sched[r][k].op = "copy"
    /\ recvbuf' = [recvbuf EXCEPT ![r][sched[r][k].blk] =
                      IF inplace THEN Garbage ELSE contrib[r]]
    /\ written' = [written EXCEPT ![r] = @ \cup {sched[r][k].blk}]
    /\ st' = [st EXCEPT ![r][k] = "done"]
    /\ UNCHANGED <<skipped, comm_size, inplace, eager, contrib, built, sched, chan>>
    /\ UNCHANGED notRing

\* A send entry is issued: its message joins the FIFO to the destination.
Start_send(r, k) ==
    /\ Ready(r, k)
    /\ sched[r][k].op = "send"
    /\ chan' = [chan EXCEPT ![<<r, sched[r][k].peer>>] =
                   Append(@, [idx |-> k, snap |-> recvbuf[r][sched[r][k].blk]])]
    /\ st' = [st EXCEPT ![r][k] = "issued"]
    /\ UNCHANGED <<skipped, comm_size, inplace, eager, contrib, recvbuf, built, sched, written>>
    /\ UNCHANGED notRing

\* A receive entry is posted.
Start_recv(r, k) ==
    /\ Ready(r, k)
    /\ sched[r][k].op = "recv"
    /\ st' = [st EXCEPT ![r][k] = "issued"]
    /\ UNCHANGED <<skipped, comm_size, inplace, eager, contrib, recvbuf, built, sched, chan, written>>
    /\ UNCHANGED notRing

\* An issued send completes: at any time when the transport buffers it (eager),
\* otherwise only once its message has been matched.
Send_complete(r, k) ==
    /\ built[r]
    /\ k \in 1 .. Len(sched[r])
    /\ sched[r][k].op = "send"
    /\ st[r][k] = "issued"
    /\ eager \/ ~InFlight(r, k)
    /\ st' = [st EXCEPT ![r][k] = "done"]
    /\ UNCHANGED <<skipped, comm_size, inplace, eager, contrib, recvbuf, built, sched, chan, written>>
    /\ UNCHANGED notRing

\* What a matched message delivers: the bytes taken when the send was issued, or,
\* while the send has not completed, the bytes its buffer holds now.
Deliverable(s, msg) ==
    {msg.snap} \cup
    (IF st[s][msg.idx] # "done" THEN {recvbuf[s][sched[s][msg.idx].blk]} ELSE {})

\* A posted receive matches the oldest message from its source and completes.
Recv_match(r, k) ==
    /\ built[r]
    /\ k \in 1 .. Len(sched[r])
    /\ sched[r][k].op = "recv"
    /\ st[r][k] = "issued"
    /\ LET src == sched[r][k].peer
           q   == chan[<<src, r>>]
       IN /\ q # <<>>
          /\ \E d \in Deliverable(src, Head(q)) :
                recvbuf' = [recvbuf EXCEPT ![r][sched[r][k].blk] = d]
          /\ chan' = [chan EXCEPT ![<<src, r>>] = Tail(q)]
    /\ written' = [written EXCEPT ![r] = @ \cup {sched[r][k].blk}]
    /\ st' = [st EXCEPT ![r][k] = "done"]
    /\ UNCHANGED <<skipped, comm_size, inplace, eager, contrib, built, sched>>
    /\ UNCHANGED notRing

\* ------------------------------------------------------------------ selection
MPI_SUCCESS == "MPI_SUCCESS"
MPIR_ERR_NONE == "MPIR_ERR_NONE"
ErrFlags == {MPIR_ERR_NONE, "MPIR_ERR_PROC_FAILED", "MPIR_ERR_OTHER"}
\* An error an algorithm returns.
AlgErrors == {"ERR_ALG"}

IntraChoices == {"auto", "brucks", "recursive_doubling", "ring", "unrecognised"}
InterChoices == {"auto", "generic", "unrecognised"}

\* a & b on non-negative ints
RECURSIVE BitAnd(_, _)
BitAnd(a, b) ==
    IF a = 0 \/ b = 0 THEN 0
    ELSE (a % 2) * (b % 2) + 2 * BitAnd(a \div 2, b \div 2)

\* !(comm_size & (comm_size - 1))
PowerOfTwoTest(size) == BitAnd(size, size - 1) = 0

\* ((sendcount == 0) && (sendbuf != MPI_IN_PLACE)) || (recvcount == 0)
ZeroSize_Never(args) == FALSE
ZeroSize(args) ==
    (args.sendcount = 0 /\ ~args.inplace) \/ args.recvcount = 0

\* tot_bytes = (MPI_Aint)recvcount * comm_size * type_size
TotBytes(args) == args.recvcount * args.size * args.type_size

\* The if / else if / else of MPIR_Allgather_intra.
IntraSelect_ShortFirst(tot, size, short, long) ==
    IF tot < short THEN "brucks"
    ELSE IF tot < long /\ PowerOfTwoTest(size) THEN "recursive_doubling"
    ELSE "ring"
IntraSelect(tot, size, short, long) ==
    IF tot < long /\ PowerOfTwoTest(size) THEN "recursive_doubling"
    ELSE IF tot < short THEN "brucks"
    ELSE "ring"

\* switch (MPIR_Allgather_alg_intra_choice): the algorithm called directly, or
\* "intra" for MPIR_Allgather_intra.
IntraDispatch_RingDefault(choice) ==
    CASE choice = "brucks" -> "brucks"
      [] choice = "recursive_doubling" -> "recursive_doubling"
      [] choice = "auto" -> "intra"
      [] OTHER -> "ring"
IntraDispatch(choice) ==
    CASE choice = "brucks" -> "brucks"
      [] choice = "recursive_doubling" -> "recursive_doubling"
      [] choice = "ring" -> "ring"
      [] choice = "auto" -> "intra"
      [] OTHER -> "intra"

\* comm_ptr->comm_kind == MPIR_COMM_KIND__INTRACOMM
IsIntracomm_Always(kind) == TRUE
IsIntracomm(kind) == kind = "intracomm"

\* switch (MPIR_Allgather_alg_inter_choice): "direct" for the direct call of
\* MPIR_Allgather_generic_inter, "inter" for MPIR_Allgather_inter (which calls it).
InterDispatch(choice) ==
    CASE choice = "generic" -> "direct"
      [] choice = "auto" -> "inter"
      [] OTHER -> "inter"

\* MPIR_ERR_SET(mpi_errno, *errflag, "**coll_fail"): a new code of the flag's class
CollFail(errflag) ==
    IF errflag = "MPIR_ERR_PROC_FAILED" THEN "ERR_COLL_FAIL_PROC_FAILED"
    ELSE "ERR_COLL_FAIL_OTHER"

\* fn_exit of MPIR_Allgather_intra: mpi_errno_ret is never set; a set flag makes
\* MPIR_ERR_SET replace mpi_errno by a "**coll_fail" code of the flag's class.
IntraExit_IgnoreFlag(errno, errflag) == errno
IntraExit(errno, errflag) ==
    IF errflag # MPIR_ERR_NONE THEN CollFail(errflag) ELSE errno

Thresholds == {MaxThresh \div 2, MaxThresh}

ArgSet ==
    { a \in [comm_kind : {"intracomm", "intercomm"},
             sendcount : {0, MaxCount},
             recvcount : 0 .. MaxCount,
             inplace   : BOOLEAN,
             size      : 1 .. MaxCommSize,
             type_size : {1, MaxTypeSize}] :
        \* MPI_IN_PLACE is valid on an intracommunicator only
        a.inplace => a.comm_kind = "intracomm" }

NoArgs == [comm_kind |-> "intracomm", sendcount |-> 0, recvcount |-> 0,
           inplace |-> FALSE, size |-> 1, type_size |-> 1]
NoAlg == [errno |-> "unset", errflag |-> "unset"]

SelIdle ==
    /\ a_pc = "idle"
    /\ a_args = NoArgs
    /\ a_via = "none"
    /\ a_invoked = <<>>
    /\ a_errno = MPI_SUCCESS
    /\ a_errflag = MPIR_ERR_NONE
    /\ a_alg = NoAlg
    /\ a_intra_ret = "unset"

SelInit ==
    /\ cvar_short \in Thresholds
    /\ cvar_long \in Thresholds
    /\ intra_choice \in IntraChoices
    /\ inter_choice \in InterChoices
    /\ SelIdle

cvars == <<cvar_short, cvar_long, intra_choice, inter_choice>>

\* MPI_Allgather calls MPIR_Allgather: mpi_errno = MPI_SUCCESS, errflag = MPIR_ERR_NONE.
Allgather_call(args) ==
    /\ a_pc = "idle"
    /\ a_pc' = "dispatch"
    /\ a_args' = args
    /\ UNCHANGED <<cvars, a_via, a_invoked, a_errno, a_errflag, a_alg, a_intra_ret>>
    /\ UNCHANGED notSel

\* MPIR_Allgather: the switch on the communicator kind and the algorithm choice.
Allgather_dispatch ==
    /\ a_pc = "dispatch"
    /\ IF IsIntracomm(a_args.comm_kind)
       THEN IF IntraDispatch(intra_choice) = "intra"
            THEN /\ a_pc' = "intra"
                 /\ a_via' = "intra"
                 /\ a_invoked' = a_invoked
            ELSE /\ a_pc' = "algo"
                 /\ a_via' = "direct"
                 /\ a_invoked' = Append(a_invoked, IntraDispatch(intra_choice))
       ELSE /\ a_pc' = "algo"
            /\ a_via' = InterDispatch(inter_choice)
            /\ a_invoked' = Append(a_invoked, "generic_inter")
    /\ UNCHANGED <<cvars, a_args, a_errno, a_errflag, a_alg, a_intra_ret>>
    /\ UNCHANGED notSel

\* MPIR_Allgather_intra up to the call of the algorithm it selects; a zero-size
\* call returns MPI_SUCCESS at once.
Allgather_intra_select ==
    /\ a_pc = "intra"
    /\ IF ZeroSize(a_args)
       THEN /\ a_pc' = "outer_exit"
            /\ a_intra_ret' = MPI_SUCCESS
            /\ a_errno' = MPI_SUCCESS
            /\ a_invoked' = a_invoked
       ELSE /\ a_pc' = "algo"
            /\ a_invoked' = Append(a_invoked,
                   IntraSelect(TotBytes(a_args), a_args.size, cvar_short, cvar_long))
            /\ UNCHANGED <<a_intra_ret, a_errno>>
    /\ UNCHANGED <<cvars, a_args, a_via, a_errflag, a_alg>>
    /\ UNCHANGED notSel

\* The invoked algorithm runs and returns: success or an error, and it may have
\* raised the failure flag.
Algorithm_return ==
    /\ a_pc = "algo"
    /\ \E e \in {MPI_SUCCESS} \cup AlgErrors, f \in ErrFlags :
          /\ a_errflag # MPIR_ERR_NONE => f = a_errflag
          /\ a_errno' = e
          /\ a_errflag' = f
          /\ a_alg' = [errno |-> e, errflag |-> f]
    /\ a_pc' = IF a_via = "intra" THEN "intra_exit" ELSE "outer_exit"
    /\ UNCHANGED <<cvars, a_args, a_via, a_invoked, a_intra_ret>>
    /\ UNCHANGED notSel

\* fn_exit of MPIR_Allgather_intra.
Allgather_intra_exit ==
    /\ a_pc = "intra_exit"
    /\ a_errno' = IntraExit(a_errno, a_errflag)
    /\ a_intra_ret' = IntraExit(a_errno, a_errflag)
    /\ a_pc' = "outer_exit"
    /\ UNCHANGED <<cvars, a_args, a_via, a_invoked, a_errflag, a_alg>>
    /\ UNCHANGED notSel

\* MPIR_Allgather returns mpi_errno.
Allgather_return ==
    /\ a_pc = "outer_exit"
    /\ a_pc' = "returned"
    /\ UNCHANGED <<cvars, a_args, a_via, a_invoked, a_errno, a_errflag, a_alg, a_intra_ret>>
    /\ UNCHANGED notSel

\* ------------------------------------------------------------------ neighbor all-gather
Calls == 1 .. NbCalls
Requests == 1 .. NbCalls

\* What MPID_Ineighbor_allgather and MPIR_Wait_impl may return.
NbOutcomes == {MPI_SUCCESS, "ERR_START_OR_WAIT"}

\* if (mpi_errno) MPIR_ERR_POP(mpi_errno); after the start: fn_fail, else the wait.
AfterStart_NoWait(errno) == "exit"
AfterStart(errno) == IF errno # MPI_SUCCESS THEN "exit" ELSE "wait"

NbIdle ==
    /\ nb_pc = [c \in Calls |-> "idle"]
    /\ nb_req = [c \in Calls |-> 0]
    /\ nb_res = [c \in Calls |-> [start |-> "unset", wait |-> "unset", errno |-> MPI_SUCCESS]]
    /\ nb_events = [c \in Calls |-> <<>>]
    /\ req_state = [q \in Requests |-> "free"]

\* mpi_errno = MPID_Ineighbor_allgather(..., &req); if (mpi_errno) MPIR_ERR_POP
Nb_start(c, outcome) ==
    /\ nb_pc[c] = "idle"
    /\ nb_events' = [nb_events EXCEPT ![c] = Append(@, [ev |-> "start", req |-> 0])]
    /\ nb_res' = [nb_res EXCEPT ![c].start = outcome, ![c].errno = outcome]
    /\ IF outcome = MPI_SUCCESS
       THEN \E q \in Requests :
               /\ req_state[q] = "free"
               /\ req_state' = [req_state EXCEPT ![q] = "active"]
               /\ nb_req' = [nb_req EXCEPT ![c] = q]
       ELSE UNCHANGED <<req_state, nb_req>>
    /\ nb_pc' = [nb_pc EXCEPT ![c] = AfterStart(outcome)]
    /\ UNCHANGED notNb

\* The progress engine drains the schedule behind a request.
Req_progress(q) ==
    /\ req_state[q] = "active"
    /\ req_state' = [req_state EXCEPT ![q] = "complete"]
    /\ UNCHANGED <<nb_pc, nb_req, nb_res, nb_events>>
    /\ UNCHANGED notNb

\* mpi_errno = MPIR_Wait_impl(&req, MPI_STATUS_IGNORE): returns once the request
\* has completed; if (mpi_errno) MPIR_ERR_POP
Nb_wait(c, outcome) ==
    /\ nb_pc[c] = "wait"
    /\ nb_req[c] # 0
    /\ req_state[nb_req[c]] = "complete"
    /\ nb_events' = [nb_events EXCEPT ![c] = Append(@, [ev |-> "wait", req |-> nb_req[c]])]
    /\ nb_res' = [nb_res EXCEPT ![c].wait = outcome, ![c].errno = outcome]
    /\ nb_pc' = [nb_pc EXCEPT ![c] = "exit"]
    /\ UNCHANGED <<nb_req, req_state>>
    /\ UNCHANGED notNb

\* fn_exit: return mpi_errno
Nb_return(c) ==
    /\ nb_pc[c] = "exit"
    /\ nb_pc' = [nb_pc EXCEPT ![c] = "returned"]
    /\ UNCHANGED <<nb_req, nb_res, nb_events, req_state>>
    /\ UNCHANGED notNb

\* ------------------------------------------------------------------ critical section
Threads == 1 .. NThreads
EntryPoints == {"MPI_Allgather", "MPI_Win_complete"}

\* The label after `pc` in entry point `fn`; `ok` is the outcome of the step at `pc`.
\* MPIR_ERRTEST_* macros and the explicit tests `goto fn_fail`; fn_fail ends in
\* `goto fn_exit`; fn_exit leaves the critical section and returns.
NextLabel_FailReturns(fn, pc, ok) ==
    CASE pc = "cs_enter" -> "errtest_handle"
      [] pc = "errtest_handle" -> IF ok THEN "valid_ptr" ELSE "fn_fail"
      [] pc = "valid_ptr" ->
            IF ~ok THEN "fn_fail"
            ELSE IF fn = "MPI_Allgather" THEN "errtest_args" ELSE "body"
      [] pc = "errtest_args" -> IF ok THEN "body" ELSE "fn_fail"
      [] pc = "body" -> IF ok THEN "fn_exit" ELSE "fn_fail"
      [] pc = "fn_fail" -> "returned"
      [] pc = "fn_exit" -> "returned"
NextLabel(fn, pc, ok) ==
    CASE pc = "cs_enter" -> "errtest_handle"
      [] pc = "errtest_handle" -> IF ok THEN "valid_ptr" ELSE "fn_fail"
      [] pc = "valid_ptr" ->
            IF ~ok THEN "fn_fail"
            ELSE IF fn = "MPI_Allgather" THEN "errtest_args" ELSE "body"
      [] pc = "errtest_args" -> IF ok THEN "body" ELSE "fn_fail"
      [] pc = "body" -> IF ok THEN "fn_exit" ELSE "fn_fail"
      [] pc = "fn_fail" -> "fn_exit"
      [] pc = "fn_exit" -> "returned"

\* The global mutex: free, or owned by one thread.
CS_Free == cs_owner = 0

CSIdle ==
    /\ t_fn = [t \in Threads |-> "none"]
    /\ t_pc = [t \in Threads |-> "outside"]
    /\ t_errno = [t \in Threads |-> MPI_SUCCESS]
    /\ t_path = [t \in Threads |-> "ok"]
    /\ t_enters = [t \in Threads |-> 0]
    /\ t_exits = [t \in Threads |-> 0]
    /\ cs_owner = 0

\* A thread calls an entry point (again): mpi_errno = MPI_SUCCESS.
T_call(t, fn) ==
    /\ t_pc[t] \in {"outside", "returned"}
    /\ t_fn' = [t_fn EXCEPT ![t] = fn]
    /\ t_pc' = [t_pc EXCEPT ![t] = "cs_enter"]
    /\ t_errno' = [t_errno EXCEPT ![t] = MPI_SUCCESS]
    /\ t_path' = [t_path EXCEPT ![t] = "ok"]
    /\ t_enters' = [t_enters EXCEPT ![t] = 0]
    /\ t_exits' = [t_exits EXCEPT ![t] = 0]
    /\ UNCHANGED cs_owner
    /\ UNCHANGED notCS

\* MPID_THREAD_CS_ENTER(GLOBAL, MPIR_THREAD_GLOBAL_ALLFUNC_MUTEX)
T_cs_enter(t) ==
    /\ t_pc[t] = "cs_enter"
    /\ CS_Free
    /\ cs_owner' = t
    /\ t_enters' = [t_enters EXCEPT ![t] = @ + 1]
    /\ t_pc' = [t_pc EXCEPT ![t] = NextLabel(t_fn[t], "cs_enter", TRUE)]
    /\ UNCHANGED <<t_fn, t_errno, t_path, t_exits>>
    /\ UNCHANGED notCS

\* A validation step or the body of the routine: it succeeds, or sets mpi_errno
\* and goes to fn_fail.
T_step(t, ok) ==
    /\ t_pc[t] \in {"errtest_handle", "valid_ptr", "errtest_args", "body"}
    /\ t_pc' = [t_pc EXCEPT ![t] = NextLabel(t_fn[t], t_pc[t], ok)]
    /\ t_errno' = [t_errno EXCEPT ![t] = IF ok THEN @ ELSE "ERR"]
    /\ t_path' = [t_path EXCEPT ![t] = IF ok THEN @ ELSE t_pc[t]]
    /\ UNCHANGED <<t_fn, t_enters, t_exits, cs_owner>>
    /\ UNCHANGED notCS

\* fn_fail: MPIR_Err_create_code, MPIR_Err_return_comm / _win; goto fn_exit
T_fn_fail(t) ==
    /\ t_pc[t] = "fn_fail"
    /\ t_pc' = [t_pc EXCEPT ![t] = NextLabel(t_fn[t], "fn_fail", FALSE)]
    /\ UNCHANGED <<t_fn, t_errno, t_path, t_enters, t_exits, cs_owner>>
    /\ UNCHANGED notCS

\* fn_exit: MPID_THREAD_CS_EXIT(GLOBAL, MPIR_THREAD_GLOBAL_ALLFUNC_MUTEX); return mpi_errno
T_fn_exit(t) ==
    /\ t_pc[t] = "fn_exit"
    /\ cs_owner' = IF cs_owner = t THEN 0 ELSE cs_owner
    /\ t_exits' = [t_exits EXCEPT ![t] = @ + 1]
    /\ t_pc' = [t_pc EXCEPT ![t] = NextLabel(t_fn[t], "fn_exit", TRUE)]
    /\ UNCHANGED <<t_fn, t_errno, t_path, t_enters>>
    /\ UNCHANGED notCS

\* ------------------------------------------------------------------ recursive doubling
RDRanks == 0 .. (rd_size - 1)

\* a ^ b (bitwise exclusive or) on non-negative ints
RECURSIVE BitXor(_, _)
BitXor(a, b) ==
    IF a = 0 THEN b
    ELSE IF b = 0 THEN a
    ELSE ((a + b) % 2) + 2 * BitXor(a \div 2, b \div 2)

\* log2(size) rounds
RECURSIVE RDRounds(_)
RDRounds(size) == IF size <= 1 THEN 0 ELSE 1 + RDRounds(size \div 2)

\* the partner in round k: the rank that differs in bit k
RDPartner_Shift(rank, k, size) == (rank + 2 ^ k) % size
RDPartner(rank, k, size) == BitXor(rank, 2 ^ k)

\* merging what the partner has gathered into the own buffer
RDMerge(mine, theirs) ==
    [j \in DOMAIN mine |-> IF theirs[j] # Garbage THEN theirs[j] ELSE mine[j]]

\* A power-of-two group; every rank holds only its own contribution, at its own
\* offset in the receive buffer.
RDInit ==
    /\ rd_size \in {2 ^ n : n \in 0 .. MaxLog}
    /\ rd_contrib = [j \in RDRanks |-> j + 1]
    /\ rd_buf = [r \in RDRanks |-> [j \in RDRanks |->
                    IF j = r THEN rd_contrib[r] ELSE Garbage]]
    /\ rd_round = [r \in RDRanks |-> 0]
    /\ rd_sent = [r \in RDRanks |-> FALSE]
    /\ rd_chan = [p \in RDRanks \X RDRanks |-> <<>>]
    /\ rd_log = [r \in RDRanks |-> <<>>]

\* Rank r sends what it has accumulated to its partner of the current round.
RD_send(r) ==
    /\ rd_round[r] < RDRounds(rd_size)
    /\ ~rd_sent[r]
    /\ LET dst == RDPartner(r, rd_round[r], rd_size)
       IN  /\ dst \in RDRanks
           /\ rd_chan' = [rd_chan EXCEPT ![<<r, dst>>] = Append(@, rd_buf[r])]
    /\ rd_sent' = [rd_sent EXCEPT ![r] = TRUE]
    /\ UNCHANGED <<rd_size, rd_contrib, rd_buf, rd_round, rd_log>>
    /\ UNCHANGED notRD

\* Rank r receives what its partner of the current round has accumulated, merges
\* it and finishes the round.
RD_recv(r) ==
    /\ rd_round[r] < RDRounds(rd_size)
    /\ rd_sent[r]
    /\ LET src == RDPartner(r, rd_round[r], rd_size)
       IN  /\ src \in RDRanks
           /\ rd_chan[<<src, r>>] # <<>>
           /\ rd_buf' = [rd_buf EXCEPT ![r] = RDMerge(@, Head(rd_chan[<<src, r>>]))]
           /\ rd_chan' = [rd_chan EXCEPT ![<<src, r>>] = Tail(@)]
           /\ rd_log' = [rd_log EXCEPT ![r] = Append(@, src)]
    /\ rd_round' = [rd_round EXCEPT ![r] = @ + 1]
    /\ rd_sent' = [rd_sent EXCEPT ![r] = FALSE]
    /\ UNCHANGED <<rd_size, rd_contrib>>
    /\ UNCHANGED notRD

RDIdle ==
    /\ rd_size = 0
    /\ rd_contrib = <<>>
    /\ rd_buf = <<>>
    /\ rd_round = <<>>
    /\ rd_sent = <<>>
    /\ rd_chan = <<>>
    /\ rd_log = <<>>

\* ------------------------------------------------------------------ Bruck
BruckRanks == 0 .. (br_size - 1)

\* ceil(log2(size)) rounds: the distance doubles while it is below the size
RECURSIVE BruckRoundsFrom(_, _)
BruckRoundsFrom(dist, size) ==
    IF dist < size THEN 1 + BruckRoundsFrom(2 * dist, size) ELSE 0
BruckRounds(size) == BruckRoundsFrom(1, size)

\* round k sends to the rank 2^k positions below, receives from 2^k positions above
BruckDst(rank, k, size) == (rank + size - 2 ^ k) % size
BruckSrc(rank, k, size) == (rank + 2 ^ k) % size

\* the blocks moved in round k: all that is held, 2^k, but no more than are missing
BruckCount(k, size) == IF 2 ^ k <= size - 2 ^ k THEN 2 ^ k ELSE size - 2 ^ k

\* the final permutation: position p of the rotated buffer is block (p + rank) mod size
BruckFixup_Rotated(tmp, rank, size) == [j \in 0 .. (size - 1) |-> tmp[j + 1]]
BruckFixup(tmp, rank, size) ==
    [j \in 0 .. (size - 1) |-> tmp[((j + size - rank) % size) + 1]]

\* Every rank holds its own contribution at logical offset 0.
BruckInit ==
    /\ br_size \in 1 .. MaxBruckSize
    /\ br_contrib = [j \in BruckRanks |-> j + 1]
    /\ br_tmp = [r \in BruckRanks |-> <<br_contrib[r]>>]
    /\ br_round = [r \in BruckRanks |-> 0]
    /\ br_sent = [r \in BruckRanks |-> FALSE]
    /\ br_chan = [p \in BruckRanks \X BruckRanks |-> <<>>]
    /\ br_log = [r \in BruckRanks |-> <<>>]
    /\ br_out = [r \in BruckRanks |-> [j \in BruckRanks |-> Garbage]]
    /\ br_fixed = [r \in BruckRanks |-> FALSE]

\* Rank r sends the blocks it holds to the rank 2^k positions below it.
Bruck_send(r) ==
    /\ br_round[r] < BruckRounds(br_size)
    /\ ~br_sent[r]
    /\ LET k == br_round[r]
           dst == BruckDst(r, k, br_size)
       IN  br_chan' = [br_chan EXCEPT ![<<r, dst>>] =
                          Append(@, SubSeq(br_tmp[r], 1, BruckCount(k, br_size)))]
    /\ br_sent' = [br_sent EXCEPT ![r] = TRUE]
    /\ UNCHANGED <<br_size, br_contrib, br_tmp, br_round, br_log, br_out, br_fixed>>
    /\ UNCHANGED notBruck

\* Rank r receives the blocks of the rank 2^k positions above it, appends them to
\* its holdings and finishes the round.
Bruck_recv(r) ==
    /\ br_round[r] < BruckRounds(br_size)
    /\ br_sent[r]
    /\ LET k == br_round[r]
           src == BruckSrc(r, k, br_size)
       IN  /\ br_chan[<<src, r>>] # <<>>
           /\ br_tmp' = [br_tmp EXCEPT ![r] = @ \o Head(br_chan[<<src, r>>])]
           /\ br_chan' = [br_chan EXCEPT ![<<src, r>>] = Tail(@)]
           /\ br_log' = [br_log EXCEPT ![r] =
                             Append(@, [dst |-> BruckDst(r, k, br_size), src |-> src])]
    /\ br_round' = [br_round EXCEPT ![r] = @ + 1]
    /\ br_sent' = [br_sent EXCEPT ![r] = FALSE]
    /\ UNCHANGED <<br_size, br_contrib, br_out, br_fixed>>
    /\ UNCHANGED notBruck

\* After the final round rank r permutes what it holds into the receive buffer.
Bruck_fixup(r) ==
    /\ br_round[r] = BruckRounds(br_size)
    /\ ~br_fixed[r]
    /\ br_out' = [br_out EXCEPT ![r] = BruckFixup(br_tmp[r], r, br_size)]
    /\ br_fixed' = [br_fixed EXCEPT ![r] = TRUE]
    /\ UNCHANGED <<br_size, br_contrib, br_tmp, br_round, br_sent, br_chan, br_log>>
    /\ UNCHANGED notBruck

BruckIdle ==
    /\ br_size = 0
    /\ br_contrib = <<>>
    /\ br_tmp = <<>>
    /\ br_round = <<>>
    /\ br_sent = <<>>
    /\ br_chan = <<>>
    /\ br_log = <<>>
    /\ br_out = <<>>
    /\ br_fixed = <<>>

\* ------------------------------------------------------------------ byte offsets
\* int: IntBits wide, two's complement; MPI_Aint: twice as wide
AintBits == 2 * IntBits
MaxInt == 2 ^ (IntBits - 1) - 1

\* the value of width bits that x wraps to
WrapTo(x, bits) == ((x + 2 ^ (bits - 1)) % (2 ^ bits)) - 2 ^ (bits - 1)

Fits(x, bits) == -(2 ^ (bits - 1)) <= x /\ x < 2 ^ (bits - 1)

\* a * b in a signed type of width bits: the product when it fits; otherwise the
\* behaviour is undefined, and a build yields the wrapped value or, when it carries
\* out the multiplication in a wider register, the product.
MulOutcomes(a, b, bits) ==
    IF Fits(a * b, bits) THEN {a * b} ELSE {WrapTo(a * b, bits), a * b}

\* blk * recvcount * recvtype_extent with int blk, int recvcount, MPI_Aint extent:
\* (blk * recvcount) is an int multiplication, its result is converted to MPI_Aint
\* and multiplied by the extent.
OffsetOutcomes(blk, recvcount, extent) ==
    UNION {MulOutcomes(p, extent, AintBits) : p \in MulOutcomes(blk, recvcount, IntBits)}

NoOffset == [what |-> "none", blk |-> 0, off |-> 0]

OffRecord(what, blk, off) == [what |-> what, blk |-> blk, off |-> off]

\* One rank enters MPIR_Iallgather_ring_sched with a non-negative int recvcount.
OffInit ==
    /\ o_args \in [comm_size : 1 .. MaxOffSize, rank : 0 .. (MaxOffSize - 1),
                   recvcount : 0 .. MaxInt, extent : 1 .. MaxExtent, inplace : BOOLEAN]
    /\ o_args.rank < o_args.comm_size
    /\ o_pc = "bound"
    /\ o_i = 0
    /\ o_j = 0
    /\ o_jnext = 0
    /\ o_last = NoOffset

\* MPIR_Ensure_Aint_fits_in_pointer(recvbuf + (comm_size * recvcount * recvtype_extent))
Off_bound ==
    /\ o_pc = "bound"
    /\ \E v \in OffsetOutcomes(o_args.comm_size, o_args.recvcount, o_args.extent) :
          o_last' = OffRecord("bound", o_args.comm_size, v)
    /\ o_pc' = IF NeedsCopy(o_args.inplace) THEN "copy" ELSE "init"
    /\ UNCHANGED <<o_args, o_i, o_j, o_jnext>>
    /\ UNCHANGED notOff

\* MPIR_Sched_copy(..., (char *)recvbuf + rank*recvcount*recvtype_extent, ...)
Off_copy ==
    /\ o_pc = "copy"
    /\ \E v \in OffsetOutcomes(o_args.rank, o_args.recvcount, o_args.extent) :
          o_last' = OffRecord("copy", o_args.rank, v)
    /\ o_pc' = "init"
    /\ UNCHANGED <<o_args, o_i, o_j, o_jnext>>
    /\ UNCHANGED notOff

\* j = rank; jnext = left; i = 1
Off_loop_init ==
    /\ o_pc = "init"
    /\ o_j' = o_args.rank
    /\ o_jnext' = Left(o_args.rank, o_args.comm_size)
    /\ o_i' = 1
    /\ o_pc' = "send"
    /\ UNCHANGED <<o_args, o_last>>
    /\ UNCHANGED notOff

\* i < comm_size: MPIR_Sched_send((char *)recvbuf + j*recvcount*recvtype_extent, ...)
Off_send ==
    /\ o_pc = "send"
    /\ o_i < o_args.comm_size
    /\ \E v \in OffsetOutcomes(o_j, o_args.recvcount, o_args.extent) :
          o_last' = OffRecord("send", o_j, v)
    /\ o_pc' = "recv"
    /\ UNCHANGED <<o_args, o_i, o_j, o_jnext>>
    /\ UNCHANGED notOff

\* MPIR_Sched_recv((char *)recvbuf + jnext*recvcount*recvtype_extent, ...);
\* j = jnext; jnext = (comm_size + jnext - 1) % comm_size; i++
Off_recv ==
    /\ o_pc = "recv"
    /\ \E v \in OffsetOutcomes(o_jnext, o_args.recvcount, o_args.extent) :
          o_last' = OffRecord("recv", o_jnext, v)
    /\ o_j' = o_jnext
    /\ o_jnext' = NextJnext(o_args.comm_size, o_jnext)
    /\ o_i' = o_i + 1
    /\ o_pc' = "send"
    /\ UNCHANGED o_args
    /\ UNCHANGED notOff

\* i == comm_size: the loop ends and the function returns
Off_return ==
    /\ o_pc = "send"
    /\ o_i >= o_args.comm_size
    /\ o_pc' = "returned"
    /\ UNCHANGED <<o_args, o_i, o_j, o_jnext, o_last>>
    /\ UNCHANGED notOff

OffIdle ==
    /\ o_args = <<>>
    /\ o_pc = "idle"
    /\ o_i = 0
    /\ o_j = 0
    /\ o_jnext = 0
    /\ o_last = NoOffset

\* ------------------------------------------------------------------ specifications
RingIdle ==
    /\ comm_size = 0
    /\ inplace = FALSE
    /\ eager = FALSE
    /\ contrib = <<>>
    /\ recvbuf = <<>>
    /\ built = <<>>
    /\ sched = <<>>
    /\ st = <<>>
    /\ chan = <<>>
    /\ written = <<>>
    /\ skipped = {}

SelOff ==
    /\ SelIdle
    /\ cvar_short = 0
    /\ cvar_long = 0
    /\ intra_choice = "auto"
    /\ inter_choice = "auto"

\* The ring schedules of one collective call, all ranks.
Init == RingInit /\ SelOff /\ NbIdle /\ CSIdle /\ RDIdle /\ BruckIdle /\ OffIdle
Next ==
    \/ \E r \in Ranks : Sched_build(r)
    \/ \E r \in Ranks : \E k \in 1 .. Len(sched[r]) : Start_copy(r, k)
    \/ \E r \in Ranks : \E k \in 1 .. Len(sched[r]) : Start_send(r, k)
    \/ \E r \in Ranks : \E k \in 1 .. Len(sched[r]) : Start_recv(r, k)
    \/ \E r \in Ranks : \E k \in 1 .. Len(sched[r]) : Send_complete(r, k)
    \/ \E r \in Ranks : \E k \in 1 .. Len(sched[r]) : Recv_match(r, k)
Spec == Init /\ [][Next]_vars

\* The same, every rank making the call and the progress engine and the transport
\* never stopping while a step can be taken.
\* (eager sends, whose interleavings are far more numerous, up to one size less)
InitFair == Init /\ (eager => comm_size < MaxSize)

SpecFair == InitFair /\ [][Next]_vars /\ WF_vars(Next)

\* One call of MPIR_Allgather under every configuration.
\* The ring schedule when one rank skips the call.
InitSkip == SkipInit /\ SelOff /\ NbIdle /\ CSIdle /\ RDIdle /\ BruckIdle /\ OffIdle

SpecSkip == InitSkip /\ [][Next]_vars

\* The ring schedules as MPIR_Iallgather_ring_sched records them, nothing run yet.
InitSched == SchedInit /\ SelOff /\ NbIdle /\ CSIdle /\ RDIdle /\ BruckIdle /\ OffIdle

NextSched == \E r \in Ranks : Sched_build(r)

SpecSched == InitSched /\ [][NextSched]_vars

\* Recursive doubling on a power-of-two group.
InitRD == RDInit /\ RingIdle /\ SelOff /\ NbIdle /\ CSIdle /\ BruckIdle /\ OffIdle

NextRD ==
    \/ \E r \in RDRanks : RD_send(r)
    \/ \E r \in RDRanks : RD_recv(r)

SpecRD == InitRD /\ [][NextRD]_vars

\* Bruck's algorithm on a group of any size.
InitBruck == BruckInit /\ RingIdle /\ SelOff /\ NbIdle /\ CSIdle /\ RDIdle /\ OffIdle

NextBruck ==
    \/ \E r \in BruckRanks : Bruck_send(r)
    \/ \E r \in BruckRanks : Bruck_recv(r)
    \/ \E r \in BruckRanks : Bruck_fixup(r)

SpecBruck == InitBruck /\ [][NextBruck]_vars

\* The offsets one rank computes while it builds its ring schedule.
InitOff ==
    OffInit /\ RingIdle /\ SelOff /\ NbIdle /\ CSIdle /\ RDIdle /\ BruckIdle

NextOffsets ==
    \/ Off_bound
    \/ Off_copy
    \/ Off_loop_init
    \/ Off_send
    \/ Off_recv
    \/ Off_return

SpecOff == InitOff /\ [][NextOffsets]_vars

InitSel == SelInit /\ RingIdle /\ NbIdle /\ CSIdle /\ RDIdle /\ BruckIdle /\ OffIdle
NextSel ==
    \/ \E args \in ArgSet : Allgather_call(args)
    \/ Allgather_dispatch
    \/ Allgather_intra_select
    \/ Algorithm_return
    \/ Allgather_intra_exit
    \/ Allgather_return
SpecSel == InitSel /\ [][NextSel]_vars

\* Concurrent calls of MPIR_Neighbor_allgather_nb.
InitNb == NbIdle /\ RingIdle /\ SelOff /\ CSIdle /\ RDIdle /\ BruckIdle /\ OffIdle
NextNb ==
    \/ \E c \in Calls, o \in NbOutcomes : Nb_start(c, o)
    \/ \E q \in Requests : Req_progress(q)
    \/ \E c \in Calls, o \in NbOutcomes : Nb_wait(c, o)
    \/ \E c \in Calls : Nb_return(c)
SpecNb == InitNb /\ [][NextNb]_vars

\* Threads calling MPI_Allgather and MPI_Win_complete.
InitCS == CSIdle /\ RingIdle /\ SelOff /\ NbIdle /\ RDIdle /\ BruckIdle /\ OffIdle
NextCS ==
    \/ \E t \in Threads, fn \in EntryPoints : T_call(t, fn)
    \/ \E t \in Threads : T_cs_enter(t)
    \/ \E t \in Threads, ok \in BOOLEAN : T_step(t, ok)
    \/ \E t \in Threads : T_fn_fail(t)
    \/ \E t \in Threads : T_fn_exit(t)
SpecCS == InitCS /\ [][NextCS]_vars

\* ------------------------------------------------------------------ claims: ring

\* C1: non-in-place, once every rank's ring schedule has drained, block j of every
\* rank's receive buffer holds the contribution rank j supplied.
C1_RingPostcondition ==
    (~inplace /\ AllDrained) =>
        \A r \in Ranks : \A j \in Ranks : recvbuf[r][j] = contrib[j]

C1_Witness == ~inplace /\ AllDrained /\ comm_size = MaxSize

\* C2: in-place, no rank's schedule holds a copy step, no step ever writes a rank's
\* own block, and once all schedules have drained every other block j holds rank
\* j's contribution.
C2_InPlace ==
    inplace =>
        /\ \A r \in Ranks : \A k \in 1 .. Len(sched[r]) : sched[r][k].op # "copy"
        /\ \A r \in Ranks : r \notin written[r]
        /\ AllDrained =>
              \A r \in Ranks : \A j \in Ranks \ {r} : recvbuf[r][j] = contrib[j]

C2_Witness ==
    /\ inplace /\ AllDrained /\ comm_size = MaxSize
    /\ \A r \in Ranks : written[r] = Ranks \ {r}

\* C11: when every rank runs the ring schedule, every rank's schedule eventually
\* drains, for every group size and every fair interleaving, with sends that
\* complete early (eager) or only once matched (rendezvous).
C11_EventuallyDrained == <>AllDrained

\* drained under rendezvous sends
C11_Witness == AllDrained /\ ~eager /\ comm_size = MaxSize /\ ~inplace

\* C12: in a group of two or more where one rank skips the call, at every moment
\* some rank that did make the call has a schedule that has not drained; a drained
\* schedule stays drained, so at least one of them never drains.
C12_SkipDeadlocks == skipped # {} => \E r \in Ranks \ skipped : ~Drained(r)

\* nothing can move any more, a rank skipped, the other schedules built
C12_Witness ==
    /\ skipped # {}
    /\ comm_size = MaxSize
    /\ \A r \in Ranks \ skipped : built[r] /\ ~Drained(r)
    /\ ~ENABLED Next

\* The entries of rank r's schedule before its first communication step.
CopyPrefix(r) ==
    IF Len(sched[r]) > 0 /\ sched[r][1].op = "copy" THEN 2 ELSE 0

IsSend(e) == e.op = "send"
IsRecv(e) == e.op = "recv"

\* The sends, and the receives, of rank r's schedule in schedule order: the i-th of
\* each belongs to communication step i.
Sends(r) == SelectSeq(sched[r], IsSend)
Recvs(r) == SelectSeq(sched[r], IsRecv)

\* C13: the schedule of every rank of every group holds exactly size-1 communication
\* steps after the optional copy, each one send to (rank+1) mod size, one receive
\* from (rank-1+size) mod size and then one barrier.
C13_StepStructure ==
    \A r \in Ranks : built[r] =>
        LET p == CopyPrefix(r)
            S == sched[r]
        IN  /\ Len(S) = p + 3 * (comm_size - 1)
            /\ Len(Sends(r)) = comm_size - 1
            /\ Len(Recvs(r)) = comm_size - 1
            /\ \A i \in 1 .. (comm_size - 1) :
                  /\ S[p + 3 * (i - 1) + 1].op = "send"
                  /\ S[p + 3 * (i - 1) + 1].peer = (r + 1) % comm_size
                  /\ S[p + 3 * (i - 1) + 2].op = "recv"
                  /\ S[p + 3 * (i - 1) + 2].peer = (r - 1 + comm_size) % comm_size
                  /\ S[p + 3 * (i - 1) + 3].op = "barrier"

\* a group of the largest size, every schedule built
C13_Witness ==
    /\ comm_size = MaxSchedSize
    /\ \A r \in Ranks : built[r] /\ Len(Sends(r)) = MaxSchedSize - 1

\* The current and the next offset of rank r at step i (1-based): they start at the
\* own block and the block to its left and both move one block down per step.
CurOff(r, i)  == (r + comm_size * i - (i - 1)) % comm_size
NextOff(r, i) == (r + comm_size * i - i) % comm_size

\* C14 (as stated): step i sends the block at the current offset and receives into
\* the block one position to the left of the next offset.
C14_RecvLeftOfNext ==
    \A r \in Ranks : built[r] =>
        \A i \in 1 .. Len(Sends(r)) :
            /\ Sends(r)[i].blk = CurOff(r, i)
            /\ Recvs(r)[i].blk = (NextOff(r, i) - 1 + comm_size) % comm_size

\* C14 (amended): step i sends the block at the current offset and receives into
\* the block at the next offset itself, which is one position to the left of the
\* current offset; both offsets decrement by one (mod size) after each step.
C14_RecvAtNext ==
    \A r \in Ranks : built[r] =>
        /\ Len(Recvs(r)) = Len(Sends(r))
        /\ \A i \in 1 .. Len(Sends(r)) :
              /\ Sends(r)[i].blk = CurOff(r, i)
              /\ Recvs(r)[i].blk = NextOff(r, i)
              /\ NextOff(r, i) = (CurOff(r, i) - 1 + comm_size) % comm_size

\* a schedule of at least three steps, so the offsets have wrapped on some rank
C14_Witness ==
    /\ comm_size >= 4
    /\ built[0]
    /\ Len(Sends(0)) >= 3
    /\ Recvs(0)[1].blk = comm_size - 1

\* The positions in rank r's schedule of its sends, and of its receives, in order:
\* the i-th of each is the send, the receive, of step i.
SendIdxs(r) ==
    SelectSeq([k \in 1 .. Len(sched[r]) |-> k], LAMBDA k : IsSend(sched[r][k]))
RecvIdxs(r) ==
    SelectSeq([k \in 1 .. Len(sched[r]) |-> k], LAMBDA k : IsRecv(sched[r][k]))
SendIdx(r, i) == SendIdxs(r)[i]
RecvIdx(r, i) == RecvIdxs(r)[i]

Started(r, k) == st[r][k] # "pending"
Done(r, k) == st[r][k] = "done"

\* C15: the send of step i+1 is never started before the send and the receive of
\* step i have both completed, and the first send is never started before the local
\* copy (when there is one) has completed.
C15_StepOrder ==
    \A r \in Ranks : built[r] =>
        LET si == SendIdxs(r)
            ri == RecvIdxs(r)
        IN  /\ \A i \in 1 .. (Len(si) - 1) :
                  Started(r, si[i + 1]) =>
                      /\ Done(r, si[i])
                      /\ i <= Len(ri) /\ Done(r, ri[i])
            /\ \A k \in 1 .. Len(sched[r]) :
                  (sched[r][k].op = "copy" /\ Len(si) > 0 /\ Started(r, si[1]))
                      => Done(r, k)

\* the send and the receive of one step complete in either order: on one rank the
\* send of step 1 is complete and its receive is not, on another the receive is
\* complete and the send is not
C15_Witness ==
    \E a, b \in Ranks :
        /\ built[a] /\ built[b] /\ Len(Sends(a)) > 0 /\ Len(Recvs(a)) > 0
        /\ Done(a, SendIdx(a, 1)) /\ ~Done(a, RecvIdx(a, 1))
        /\ Done(b, RecvIdx(b, 1)) /\ ~Done(b, SendIdx(b, 1))

\* The rank whose contribution rank r receives at step i (1-based).
Origin(r, i) == (r + comm_size * i - i) % comm_size

\* C16: step 1 sends the own contribution to rank+1 (with wrap-around); the block
\* sent in step i >= 2 is the block received in step i-1; every message carries the
\* contribution its block belongs to; and once the receive of step i has completed,
\* slot (r-i) mod size of rank r holds the contribution of rank (r-i) mod size.
C16_ForwardReceived ==
    /\ \A r \in Ranks : built[r] =>
          LET snd == Sends(r)
              rcv == Recvs(r)
              ri == RecvIdxs(r)
          IN  /\ Len(snd) > 0 =>
                    /\ snd[1].blk = r
                    /\ snd[1].peer = (r + 1) % comm_size
              /\ \A i \in 2 .. Len(snd) :
                    i - 1 <= Len(rcv) /\ snd[i].blk = rcv[i - 1].blk
              /\ \A i \in 1 .. Len(rcv) :
                    /\ rcv[i].blk = Origin(r, i)
                    /\ rcv[i].peer = (r - 1 + comm_size) % comm_size
                    /\ Done(r, ri[i]) =>
                          recvbuf[r][Origin(r, i)] = contrib[Origin(r, i)]
    /\ \A p \in Pairs : \A n \in 1 .. Len(chan[p]) :
          chan[p][n].snap = contrib[sched[p[1]][chan[p][n].idx].blk]

\* a rank of the largest group has forwarded, in step 2, what it received in step 1,
\* and has received the contribution of the rank two places to its left
C16_Witness ==
    /\ comm_size = MaxSize
    /\ \E r \in Ranks :
          /\ built[r] /\ Len(Sends(r)) >= 2 /\ Len(Recvs(r)) >= 2
          /\ Done(r, SendIdx(r, 2))
          /\ Done(r, RecvIdx(r, 2))
          /\ ~inplace

\* 2^n = size
ExactLog2(size) == CHOOSE n \in 0 .. size : 2 ^ n = size

\* The ranks of the subgroup of 2^n ranks, closed under XOR with 2^0 .. 2^(n-1),
\* that contains rank r.
XorGroup(r, n) == {j \in RDRanks : j \div (2 ^ n) = r \div (2 ^ n)}

\* The rank that differs from r in bit k and in no other bit.
FlipBit(r, k) == IF (r \div (2 ^ k)) % 2 = 0 THEN r + 2 ^ k ELSE r - 2 ^ k

\* C18: recursive doubling on a power-of-two group runs exactly log2(size) rounds;
\* the partner of round k is rank XOR 2^k; a rank that has completed rounds 0..k
\* holds exactly the 2^(k+1) contributions of its XOR-closed subgroup, each at its
\* block-by-rank slot, and nothing else; no rank stops before the last round.
C18_DoublingRounds ==
    LET rounds == ExactLog2(rd_size)
    IN  /\ \A r \in RDRanks :
              LET n == rd_round[r]
                  group == XorGroup(r, n)
              IN  /\ n <= rounds
                  /\ Len(rd_log[r]) = n
                  /\ \A k \in 0 .. (n - 1) : rd_log[r][k + 1] = FlipBit(r, k)
                  /\ Cardinality(group) = 2 ^ n
                  /\ \A j \in RDRanks :
                        rd_buf[r][j] = IF j \in group THEN rd_contrib[j] ELSE Garbage
        /\ (~ENABLED NextRD) => \A r \in RDRanks : rd_round[r] = rounds

\* the largest group: one rank has completed every round while another has
\* completed only round 0 and holds the two blocks of its pair
C18_Witness ==
    /\ rd_size = 2 ^ MaxLog
    /\ \E r, q \in RDRanks :
          /\ rd_round[r] = MaxLog
          /\ \A j \in RDRanks : rd_buf[r][j] = rd_contrib[j]
          /\ rd_round[q] = 1
          /\ Cardinality({j \in RDRanks : rd_buf[q][j] # Garbage}) = 2

\* the least n with 2^n >= size
CeilLog2(size) == CHOOSE n \in 0 .. size : 2 ^ n >= size /\ (n = 0 \/ 2 ^ (n - 1) < size)

\* C19: Bruck's algorithm, for every group size, takes exactly ceil(log2(size))
\* rounds; round k sends to (rank - 2^k) mod size and receives from (rank + 2^k) mod
\* size; until the fix-up position p of the held blocks is the contribution of rank
\* (p + rank) mod size; after the fix-up block j of every rank's receive buffer is
\* rank j's contribution; and no rank stops before its fix-up.
C19_BruckRounds ==
    /\ \A r \in BruckRanks :
          /\ br_round[r] <= CeilLog2(br_size)
          /\ Len(br_log[r]) = br_round[r]
          /\ \A k \in 0 .. (br_round[r] - 1) :
                /\ br_log[r][k + 1].dst = (r - 2 ^ k + br_size) % br_size
                /\ br_log[r][k + 1].src = (r + 2 ^ k) % br_size
          /\ \A p \in 0 .. (Len(br_tmp[r]) - 1) :
                p < br_size /\ br_tmp[r][p + 1] = br_contrib[(p + r) % br_size]
          /\ br_fixed[r] =>
                /\ br_round[r] = CeilLog2(br_size)
                /\ \A j \in BruckRanks : br_out[r][j] = br_contrib[j]
    /\ (~ENABLED NextBruck) => \A r \in BruckRanks : br_fixed[r]

\* a group whose size is not a power of two, every rank past its fix-up
C19_Witness ==
    /\ br_size >= 3
    /\ \A n \in 0 .. br_size : 2 ^ n # br_size
    /\ \A r \in BruckRanks : br_fixed[r] /\ br_out[r][0] = br_contrib[0]

\* C20: in every rank's ring schedule no two entries of one barrier-delimited phase
\* name the same receive-buffer block; in particular, for every size >= 2 and every
\* step, the block the send reads is not the block the receive writes.
C20_PhaseBlocksDistinct ==
    \A r \in Ranks : built[r] =>
        /\ \A k, m \in 1 .. Len(sched[r]) :
              (/\ k < m
               /\ sched[r][k].op # "barrier"
               /\ sched[r][m].op # "barrier"
               /\ \A b \in k .. m : sched[r][b].op # "barrier")
                  => sched[r][k].blk # sched[r][m].blk
        /\ Len(Recvs(r)) = Len(Sends(r))
        /\ \A i \in 1 .. Len(Sends(r)) : Sends(r)[i].blk # Recvs(r)[i].blk

\* a group of two, the smallest where a step exists: the two blocks differ
C20_Witness ==
    /\ comm_size = 2
    /\ built[0] /\ built[1]
    /\ Len(Sends(1)) = 1
    /\ Sends(1)[1].blk = 1 /\ Recvs(1)[1].blk = 0

\* The positions of rank r's schedule that receive into block b.
RecvsInto(r, b) ==
    {k \in 1 .. Len(sched[r]) : IsRecv(sched[r][k]) /\ sched[r][k].blk = b}

\* Entry k of rank r's schedule sends a block that an earlier phase has filled: the
\* own block (copied before the first barrier, or resident in place), or a block a
\* receive before an intervening barrier has written.
FilledBefore(r, k) ==
    LET b == sched[r][k].blk
    IN  IF b = r
        THEN \/ inplace
             \/ \E m \in 1 .. (k - 1) :
                   /\ sched[r][m].op = "copy" /\ sched[r][m].blk = r
                   /\ \E x \in (m + 1) .. (k - 1) : sched[r][x].op = "barrier"
        ELSE \E m \in 1 .. (k - 1) :
                /\ IsRecv(sched[r][m]) /\ sched[r][m].blk = b
                /\ \E x \in (m + 1) .. (k - 1) : sched[r][x].op = "barrier"

\* C21: on every rank each block other than the own block is the target of exactly
\* one receive of the schedule, the own block of none; every send names a block an
\* earlier phase has filled, and when a send is started its block holds the
\* contribution it belongs to.
C21_EachBlockOnce ==
    \A r \in Ranks : built[r] =>
        /\ \A b \in Ranks \ {r} : Cardinality(RecvsInto(r, b)) = 1
        /\ RecvsInto(r, r) = {}
        /\ \A k \in 1 .. Len(sched[r]) :
              IsSend(sched[r][k]) =>
                  /\ FilledBefore(r, k)
                  /\ Started(r, k) =>
                        /\ recvbuf[r][sched[r][k].blk] # Garbage
                        /\ recvbuf[r][sched[r][k].blk] = contrib[sched[r][k].blk]

\* a rank of the largest group has started its last send, of a block it received,
\* while it still has a block to receive
C21_Witness ==
    /\ comm_size = MaxSize
    /\ ~inplace
    /\ \E r \in Ranks :
          /\ built[r] /\ Len(SendIdxs(r)) = MaxSize - 1
          /\ Started(r, SendIdxs(r)[MaxSize - 1])
          /\ sched[r][SendIdxs(r)[MaxSize - 1]].blk # r
          /\ \E b \in Ranks : recvbuf[r][b] = Garbage

\* C22: every byte offset the ring schedule computes (for block j, and the bound
\* for comm_size blocks) is the exact product of the block index, recvcount and the
\* extent, no intermediate result having wrapped at the width of int.
C22_OffsetsExact ==
    o_last.what # "none" =>
        o_last.off = o_last.blk * o_args.recvcount * o_args.extent

\* ------------------------------------------------------------------ claims: selection

\* size = 2^k for some k
IsPowerOfTwo(n) == \E k \in 0 .. n : 2 ^ k = n

\* send count zero and not in-place, or receive count zero
ZeroSizeCall ==
    (a_args.sendcount = 0 /\ ~a_args.inplace) \/ a_args.recvcount = 0

\* n = recvcount * size * type_size
Volume == a_args.recvcount * a_args.size * a_args.type_size

\* MPIR_Allgather_intra has chosen an algorithm for the call.
IntraHasSelected ==
    a_via = "intra" /\ a_pc \in {"algo", "intra_exit", "outer_exit", "returned"} /\ ~ZeroSizeCall

\* C3: automatic selection of a non-zero-size intra-group call invokes exactly one
\* algorithm: recursive doubling if n < long and size is a power of two, otherwise
\* Bruck if n < short, otherwise ring; so a power-of-two group with
\* short <= n < long uses recursive doubling.
C3_SelectionPolicy ==
    IntraHasSelected =>
        LET rd == Volume < cvar_long /\ IsPowerOfTwo(a_args.size)
        IN /\ Len(a_invoked) = 1
           /\ rd => a_invoked[1] = "recursive_doubling"
           /\ (~rd /\ Volume < cvar_short) => a_invoked[1] = "brucks"
           /\ (~rd /\ Volume >= cvar_short) => a_invoked[1] = "ring"
           /\ (IsPowerOfTwo(a_args.size) /\ cvar_short <= Volume /\ Volume < cvar_long)
                 => a_invoked[1] = "recursive_doubling"

C3_Witness ==
    /\ IntraHasSelected /\ a_pc = "returned"
    /\ IsPowerOfTwo(a_args.size) /\ a_args.size > 1
    /\ cvar_short <= Volume /\ Volume < cvar_long
    /\ a_invoked = <<"recursive_doubling">>

\* C4: under automatic selection the ring algorithm is the one used whenever the
\* message size is >= MPIR_CVAR_ALLGATHER_LONG_MSG_SIZE, whatever the thresholds.
C4_LongThresholdMeansRing ==
    (IntraHasSelected /\ Volume >= cvar_long) => a_invoked = <<"ring">>

\* C5: on an intra-group communicator a forced choice (bruck, recursive doubling,
\* ring) invokes exactly that algorithm, never entering MPIR_Allgather_intra; the
\* automatic choice and any unrecognised one go through MPIR_Allgather_intra and
\* its threshold policy.
C5_ForcedChoice ==
    (a_args.comm_kind = "intracomm" /\ a_pc \notin {"idle", "dispatch"}) =>
        /\ intra_choice = "brucks" => (a_via = "direct" /\ a_invoked = <<"brucks">>)
        /\ intra_choice = "recursive_doubling" =>
              (a_via = "direct" /\ a_invoked = <<"recursive_doubling">>)
        /\ intra_choice = "ring" => (a_via = "direct" /\ a_invoked = <<"ring">>)
        /\ intra_choice \in {"auto", "unrecognised"} =>
              /\ a_via = "intra"
              /\ IF a_pc = "intra" \/ ZeroSizeCall
                 THEN a_invoked = <<>>
                 ELSE a_invoked = <<IntraSelect(Volume, a_args.size, cvar_short, cvar_long)>>

\* a forced ring on a call the policy would have given to recursive doubling
C5_Witness ==
    /\ a_pc = "returned" /\ a_args.comm_kind = "intracomm"
    /\ intra_choice = "ring" /\ a_invoked = <<"ring">>
    /\ ~ZeroSizeCall /\ Volume < cvar_long /\ IsPowerOfTwo(a_args.size)

\* C17: whenever MPIR_Allgather, under any algorithm choice, has invoked recursive
\* doubling, the group size is a power of two.
C17_DoublingOnlyOnPowerOfTwo ==
    (\E n \in 1 .. Len(a_invoked) : a_invoked[n] = "recursive_doubling")
        => IsPowerOfTwo(a_args.size)

C7_InterAlwaysGeneric ==
    a_args.comm_kind = "intercomm" =>
        /\ a_pc # "intra"
        /\ a_via # "intra"
        /\ \A i \in 1 .. Len(a_invoked) : a_invoked[i] = "generic_inter"
        /\ a_pc \notin {"idle", "dispatch"} => a_invoked = <<"generic_inter">>

C7_Witness ==
    /\ a_pc = "returned" /\ a_args.comm_kind = "intercomm"
    /\ inter_choice = "unrecognised" /\ intra_choice = "ring"
    /\ a_invoked = <<"generic_inter">>

\* C8: when MPIR_Allgather_intra has run an algorithm, it returns a failure if the
\* failure flag is set at exit, whatever the algorithm returned; it returns success
\* only if the algorithm returned success and the flag is MPIR_ERR_NONE; and the
\* flag is the one the algorithm left (MPIR_ERR_NONE before it ran).
C8_FailureAtExit ==
    /\ (a_via = "intra" /\ a_pc \in {"intra", "algo"}) => a_errflag = MPIR_ERR_NONE
    /\ (a_via = "intra" /\ a_alg # NoAlg) => a_errflag = a_alg.errflag
    /\ (a_via = "intra" /\ a_alg # NoAlg /\ a_intra_ret # "unset") =>
          /\ a_errflag # MPIR_ERR_NONE => a_intra_ret # MPI_SUCCESS
          /\ a_intra_ret = MPI_SUCCESS <=>
                (a_alg.errno = MPI_SUCCESS /\ a_errflag = MPIR_ERR_NONE)

\* the algorithm returned success, the flag is set, the call fails
C8_Witness ==
    /\ a_via = "intra" /\ a_pc = "returned"
    /\ a_alg # NoAlg /\ a_alg.errno = MPI_SUCCESS
    /\ a_errflag # MPIR_ERR_NONE
    /\ a_intra_ret # MPI_SUCCESS

\* ------------------------------------------------------------------ claims: neighbor

StartEv == [ev |-> "start", req |-> 0]
WaitEv(q) == [ev |-> "wait", req |-> q]

\* C9: a call of MPIR_Neighbor_allgather_nb starts one non-blocking neighbor
\* all-gather; if the start succeeds it returns only after one wait on that
\* request, which has completed, with the wait's outcome; if the start fails it
\* returns the start's error and waits on nothing.
C9_StartThenWait ==
    \A c \in Calls :
        /\ Len(nb_events[c]) <= 2
        /\ \A i \in 2 .. Len(nb_events[c]) : nb_events[c][i].ev # "start"
        /\ nb_pc[c] \in {"exit", "returned"} =>
              IF nb_res[c].start = MPI_SUCCESS
              THEN /\ nb_req[c] # 0
                   /\ nb_events[c] = <<StartEv, WaitEv(nb_req[c])>>
                   /\ req_state[nb_req[c]] = "complete"
                   /\ nb_res[c].errno = nb_res[c].wait
              ELSE /\ nb_events[c] = <<StartEv>>
                   /\ nb_res[c].wait = "unset"
                   /\ nb_res[c].errno = nb_res[c].start

\* one call returned after a failed wait, another after a failed start
C9_Witness ==
    \E c, d \in Calls :
        /\ nb_pc[c] = "returned" /\ nb_res[c].start = MPI_SUCCESS
        /\ nb_res[c].wait # MPI_SUCCESS
        /\ nb_pc[d] = "returned" /\ nb_res[d].start # MPI_SUCCESS

\* ------------------------------------------------------------------ claims: critical section

\* the labels between the critical-section enter and exit
InsideCS == {"errtest_handle", "valid_ptr", "errtest_args", "body", "fn_fail", "fn_exit"}

\* C10: at most one thread is between the global critical-section enter and exit,
\* and an entry point returns, by whatever path, having entered the critical
\* section once and then left it once.
C10_CriticalSection ==
    /\ Cardinality({t \in Threads : t_pc[t] \in InsideCS}) <= 1
    /\ \A t \in Threads :
          /\ t_exits[t] <= t_enters[t]
          /\ t_enters[t] <= 1
          /\ t_pc[t] \in InsideCS => (cs_owner = t /\ t_enters[t] = 1 /\ t_exits[t] = 0)
          /\ t_pc[t] = "returned" => (t_enters[t] = 1 /\ t_exits[t] = 1 /\ cs_owner # t)

\* a thread has returned from MPI_Allgather through a failed argument check while
\* another is in the body of MPI_Win_complete
C10_Witness ==
    \E t, u \in Threads :
        /\ t_pc[t] = "returned" /\ t_fn[t] = "MPI_Allgather" /\ t_path[t] = "errtest_args"
        /\ t_pc[u] = "body" /\ t_fn[u] = "MPI_Win_complete"

====
